---------------------------- MODULE Spec2Model ----------------------------
(***************************************************************************)
(* Mask Regional Prompter: colour allocator, mask ingestion, attention     *)
(* compositor and hook manager (scripts/rp_core.py), and the request       *)
(* handlers Script.process / Script.postprocess (scripts/mask_rp.py).      *)
(*                                                                         *)
(* Conventions                                                             *)
(*  - A value that may be None is None or Some(v).                         *)
(*  - A Python list / numpy array is a TLA+ sequence; Python index i is    *)
(*    TLA+ index i+1.                                                      *)
(*  - An RGB image is the flattened sequence of its pixels, each pixel a   *)
(*    triple <<r, g, b>> of 8-bit values; a binary mask is the sequence    *)
(*    of its 0/1 pixel values.                                             *)
(*  - Hues are dyadic rationals; a hue is kept as its numerator over       *)
(*    HueDen, which is exact for every value the allocator produces.       *)
(***************************************************************************)
EXTENDS Integers, Sequences, FiniteSets, TLC

VARIABLES
    COLREG,             \* rp_core.COLREG : None or sequence of RGB triples
    REGUSE,             \* rp_core.REGUSE : region id -> RGB triple
    VARIANT,            \* rp_core.VARIANT : the 0/1 padding flag of the canvas
    canvas,             \* the image the mask editor holds: None or an image
    forward,            \* module -> value of module.forward
    original_forward,   \* module -> value of module._original_forward, or NoAttr
    procs,              \* the MaskRegionProcessor instances created so far
    script,             \* the Script instance: [active, processor]
    p,                  \* the StableDiffusionProcessing object of the current request
    forge,              \* mask_rp.forge : the host is Forge (fixed when the module loads)
    before_install,     \* history: module -> module.forward just before the latest hook_forwards
    last                \* the most recent call: its arguments and what it returned

globals == <<COLREG, REGUSE>>
network == <<forward, original_forward>>
codec   == <<VARIANT, canvas>>
vars    == <<COLREG, REGUSE, VARIANT, canvas, forward, original_forward, procs,
             script, p, forge, before_install, last>>

(* Optional values: Python None, or Some(v) for a value v. *)
None == [isNone |-> TRUE]

Some(v) == [isNone |-> FALSE, val |-> v]

---------------------------------------------------------------------------
(* Bounds of the model                                                     *)

MaxColours == 12        \* largest n / len(lcol) tried on deterministic_colours
MaxProcs == 2           \* MaskRegionProcessor instances created in one run

---------------------------------------------------------------------------
(* Program constants                                                       *)

MAXCOLREG == 359
CCHANNELS == 3
CBLACK == 255
TOKENSCON == 77
(* COLWHITE, the background of a mask image *)
White == <<255, 255, 255>>
Tolerance == 10
HueDen == 1024          \* common denominator of the hues of the first 1024 colours

---------------------------------------------------------------------------
(* Helpers                                                                 *)

(* Body(v) with v evaluated once, as an assignment to a local does *)
Bind(v, Body(_)) == CHOOSE r \in { Body(x) : x \in {v} } : TRUE

Abs(x) == IF x < 0 THEN 0 - x ELSE x

Max(a, b) == IF a >= b THEN a ELSE b

RECURSIVE Pow2(_)
Pow2(k) == IF k <= 0 THEN 1 ELSE 2 * Pow2(k - 1)

(* np.ceil(np.log2(k)) for an integer k >= 1 *)
RECURSIVE CeilLog2From(_, _)
CeilLog2From(k, c) == IF Pow2(c) >= k THEN c ELSE CeilLog2From(k, c + 1)

CeilLog2(k) == CeilLog2From(k, 0)

---------------------------------------------------------------------------
(* Colour allocator: deterministic_colours                                 *)

(* colorsys.hsv_to_rgb(h, 0.5, 0.5) scaled by CBLACK + 1 and truncated to  *)
(* uint8, for the hue h = cval / HueDen.                                   *)
HsvToRgb8(cval) ==
    LET h6  == 6 * cval
        i   == h6 \div HueDen
        fr  == h6 % HueDen                     \* f = fr / HueDen
        v   == ((CBLACK + 1) \div 2) % 256     \* v = 0.5
        pp  == ((CBLACK + 1) \div 4) % 256     \* p = v * (1 - s) = 0.25
        q   == (((CBLACK + 1) * (2 * HueDen - fr)) \div (4 * HueDen)) % 256
        t   == (((CBLACK + 1) * (HueDen + fr)) \div (4 * HueDen)) % 256
        k   == i % 6
    IN  CASE k = 0 -> <<v, t, pp>>
          [] k = 1 -> <<q, v, pp>>
          [] k = 2 -> <<pp, v, t>>
          [] k = 3 -> <<pp, q, v>>
          [] k = 4 -> <<t, pp, v>>
          [] k = 5 -> <<v, pp, q>>

SkippingResumeState(st) ==
    IF st > 0
    THEN LET pcyc == CeilLog2(st)
             dlt  == HueDen \div Pow2(pcyc)
             r    == IF pcyc = 0 THEN 0 ELSE st % Pow2(pcyc - 1)
         IN  [pcyc |-> pcyc, dlt |-> dlt, cval |-> dlt + 2 * dlt * r]
    ELSE [pcyc |-> -1, dlt |-> 0, cval |-> 0]

(* The hue state (pcyc, cval, dlt) rebuilt from the length st of the       *)
(* supplied sequence; cval and dlt are numerators over HueDen.             *)
ResumeState(st) ==
    IF st > 0
    THEN LET pcyc == CeilLog2(st)
             dlt  == HueDen \div Pow2(pcyc)
             r    == IF pcyc = 0 THEN 0 ELSE st % Pow2(pcyc - 1)
         IN  [pcyc |-> pcyc, dlt |-> dlt, cval |-> dlt + 2 * dlt * (r - 1)]
    ELSE [pcyc |-> -1, dlt |-> 0, cval |-> 0]

HalfHueStep(s, i) ==
    LET ccyc == CeilLog2(i + 1)
    IN  IF ccyc = 0
        THEN [pcyc |-> ccyc, dlt |-> s.dlt, cval |-> 0]
        ELSE IF s.pcyc # ccyc
             THEN [pcyc |-> ccyc, dlt |-> HueDen \div Pow2(ccyc),
                   cval |-> HueDen \div Pow2(ccyc)]
             ELSE [pcyc |-> s.pcyc, dlt |-> s.dlt, cval |-> s.cval + s.dlt]

(* One iteration of the hue loop for index i. *)
HueStep(s, i) ==
    LET ccyc == CeilLog2(i + 1)
    IN  IF ccyc = 0
        THEN [pcyc |-> ccyc, dlt |-> s.dlt, cval |-> 0]
        ELSE IF s.pcyc # ccyc
             THEN [pcyc |-> ccyc, dlt |-> HueDen \div Pow2(ccyc),
                   cval |-> HueDen \div Pow2(ccyc)]
             ELSE [pcyc |-> s.pcyc, dlt |-> s.dlt, cval |-> s.cval + 2 * s.dlt]

(* The hue loop over the indices i, i+1, .., n-1 from state s: the hues    *)
(* appended to lhsv, in order, and the state the loop ends in.  The range  *)
(* is run as its first half followed by its second half.                   *)
RECURSIVE HueLoop(_, _, _)
HueLoop(s, i, n) ==
    IF i >= n THEN [lhsv |-> <<>>, s |-> s]
    ELSE IF n = i + 1
         THEN Bind(HueStep(s, i), LAMBDA s2 : [lhsv |-> <<s2.cval>>, s |-> s2])
         ELSE Bind(HueLoop(s, i, (i + n) \div 2), LAMBDA a :
              Bind(HueLoop(a.s, (i + n) \div 2, n), LAMBDA b :
                   [lhsv |-> a.lhsv \o b.lhsv, s |-> b.s]))

SwappedConcatColours(lcol, lrgb_arr) ==
    IF ~lcol.isNone THEN Some(lrgb_arr \o lcol.val) ELSE Some(lrgb_arr)

(* np.concatenate([lcol, lrgb_arr]) when lcol is supplied *)
ConcatColours(lcol, lrgb_arr) ==
    IF ~lcol.isNone THEN Some(lcol.val \o lrgb_arr) ELSE Some(lrgb_arr)

deterministic_colours(n, lcol) ==
    IF n <= 0 THEN None
    ELSE IF ~lcol.isNone /\ n <= Len(lcol.val) THEN lcol
    ELSE LET st   == IF lcol.isNone THEN 0 ELSE Len(lcol.val)
             lhsv == HueLoop(ResumeState(st), st, n).lhsv
             lrgb == [k \in 1..Len(lhsv) |-> HsvToRgb8(lhsv[k])]
         IN  ConcatColours(lcol, lrgb)

(* lhsv of deterministic_colours(n): the hues of its n entries, as         *)
(* numerators over HueDen                                                  *)
Hues(n) == HueLoop(ResumeState(0), 0, n).lhsv

---------------------------------------------------------------------------
(* Region codec: create_canvas, detect_polygons, detect_mask, draw_region  *)
(*                                                                         *)
(* A 2-D image is [h, w, px], px[r][c] the value at row r, column c: an    *)
(* RGB triple for a canvas, a number for a mask.                           *)

(* np.zeros(shape=(h, w)) + v *)
Filled(h, w, v) ==
    [h |-> h, w |-> w, px |-> [r \in 1..h |-> [c \in 1..w |-> v]]]

(* img[:-v, :-v] when v # 0, img[:, :] when v = 0 *)
Strip(img, v) ==
    IF v # 0
    THEN LET h2 == Max(img.h - v, 0)
             w2 == Max(img.w - v, 0)
         IN  [h |-> h2, w |-> w2,
              px |-> [r \in 1..h2 |-> [c \in 1..w2 |-> img.px[r][c]]]]
    ELSE img

WipingCreateCanvas(variant, reguse, h, w, indwipe) ==
    LET v == 1 - variant
    IN  [REGUSE  |-> <<>>,
         VARIANT |-> v,
         out     |-> Filled(h + v, w + v, <<CBLACK, CBLACK, CBLACK>>)]

(* create_canvas(h, w, indwipe): the globals it writes and the canvas it   *)
(* returns                                                                 *)
create_canvas(variant, reguse, h, w, indwipe) ==
    LET v == 1 - variant
    IN  [REGUSE  |-> IF indwipe THEN <<>> ELSE reguse,
         VARIANT |-> v,
         out     |-> Filled(h + v, w + v, <<CBLACK, CBLACK, CBLACK>>)]

(* The fill loop of detect_polygons: cv2.fillPoly of every contour of the  *)
(* stroke layer that passes the area test.  fill is the set of positions   *)
(* <<r, c>> those polygons cover (empty when no contour passes).           *)
FillPoly(out, fill, color) ==
    [out EXCEPT !.px = [r \in 1..out.h |-> [c \in 1..out.w |->
                           IF <<r, c>> \in fill THEN color ELSE out.px[r][c]]]]

(* skimg[:-v, :-v, :] = img2, or skimg[:, :, :] = img2 when v = 0 *)
Paste(skimg, img2) ==
    [skimg EXCEPT !.px = [r \in 1..skimg.h |-> [c \in 1..skimg.w |->
                             IF r <= img2.h /\ c <= img2.w
                             THEN img2.px[r][c] ELSE skimg.px[r][c]]]]

UncappedNextRegionId(num) == IF num >= 0 THEN num + 1 ELSE num

(* num + 1 if (num >= 0 and num + 1 <= CBLACK) else num *)
NextRegionId(num) == IF num >= 0 /\ num + 1 <= CBLACK THEN num + 1 ELSE num

(* detect_polygons(img, num), img = [image, fill]: the globals it writes,  *)
(* the canvas and the region id it returns, and the shape of the image it  *)
(* painted on.                                                             *)
detect_polygons(colreg, variant, reguse, img, num) ==
    LET out     == Strip(img.image, variant)
        colreg2 == IF num < 0 THEN colreg
                   ELSE deterministic_colours(num + 1, colreg)
        color   == IF num < 0 THEN White ELSE colreg2.val[num + 1]
        reguse2 == IF num < 0 THEN reguse ELSE (num :> color) @@ reguse
        img2    == FillPoly(out, img.fill, color)
        cc      == create_canvas(variant, reguse2, img2.h, img2.w, FALSE)
    IN  [COLREG  |-> colreg2,
         REGUSE  |-> cc.REGUSE,
         VARIANT |-> cc.VARIANT,
         skimg   |-> Paste(cc.out, img2),
         num2    |-> NextRegionId(num),
         shape   |-> <<img2.h, img2.w>>]

SomeEntryDiffers(pixel, reguse) ==
    \A ch \in 1..CCHANNELS : \E k \in DOMAIN reguse : pixel[ch] # reguse[k][ch]

(* (~(img == color_arr)).all(-1).all(-1) at one pixel: the comparison is   *)
(* elementwise over channel x registry entry, then reduced over the        *)
(* registry entries and over the channels.                                 *)
NoChannelInUse(pixel, reguse) ==
    \A ch \in 1..CCHANNELS : \A k \in DOMAIN reguse : pixel[ch] # reguse[k][ch]

WholeColourUnused(pixel, reguse) ==
    \A k \in DOMAIN reguse : pixel # reguse[k]

(* the mask of detect_mask for num < 0 and a non-empty registry *)
UnusedMask(im, reguse, mult) ==
    [h |-> im.h, w |-> im.w,
     px |-> [r \in 1..im.h |-> [c \in 1..im.w |->
                IF NoChannelInUse(im.px[r][c], reguse) THEN mult ELSE 0]]]

(* ((img == color_arr).all(-1)) * mult *)
ColourMask(im, color_arr, mult) ==
    [h |-> im.h, w |-> im.w,
     px |-> [r \in 1..im.h |-> [c \in 1..im.w |->
                IF im.px[r][c] = color_arr THEN mult ELSE 0]]]

(* mask.sum() *)
MaskSum(mask) ==
    LET RECURSIVE RowSum(_, _)
        RowSum(row, c) == IF c = 0 THEN 0 ELSE row[c] + RowSum(row, c - 1)
        RECURSIVE Rows(_)
        Rows(r) == IF r = 0 THEN 0 ELSE RowSum(mask.px[r], mask.w) + Rows(r - 1)
    IN  Rows(mask.h)

(* detect_mask(img, num, mult), img None or Some image: the registry it    *)
(* leaves and the mask it returns (None when img is None).                 *)
detect_mask(reguse, img, num, mult) ==
    IF img.isNone THEN [REGUSE |-> reguse, mask |-> None]
    ELSE IF num < 0
    THEN IF DOMAIN reguse = {}
         THEN [REGUSE |-> reguse, mask |-> Some(Filled(img.val.h, img.val.w, mult))]
         ELSE [REGUSE |-> reguse, mask |-> Some(UnusedMask(img.val, reguse, mult))]
    ELSE LET color_arr == deterministic_colours(num + 1, None).val[num + 1]
             mask      == ColourMask(img.val, color_arr, mult)
         IN  [REGUSE |-> IF MaskSum(mask) > 0
                         THEN (num :> color_arr) @@ reguse ELSE reguse,
              mask   |-> Some(mask)]

(* draw_region(img, num): detect_polygons, then detect_mask on the canvas  *)
(* it returned.                                                            *)
draw_region(colreg, variant, reguse, img, num) ==
    LET dp == detect_polygons(colreg, variant, reguse, img, num)
        dm == detect_mask(dp.REGUSE, Some(dp.skimg), num, CBLACK)
    IN  [COLREG  |-> dp.COLREG,
         REGUSE  |-> dm.REGUSE,
         VARIANT |-> dp.VARIANT,
         num2    |-> dp.num2,
         shape   |-> dp.shape,
         mask    |-> dm.mask,
         img_out |-> dp.skimg]

---------------------------------------------------------------------------
(* Mask ingestion: MaskRegionProcessor.__init__ and setup_masks            *)

(* A MaskRegionProcessor as __init__ leaves it.  regids is not a field of  *)
(* the class: it keeps the ids c of the local detected_regions beside      *)
(* regmasks (same order, same length), so that the region a mask belongs   *)
(* to can be named.                                                        *)
NewProcessor(height, width, is_forge) ==
    [height |-> height, width |-> width, is_forge |-> is_forge,
     regmasks |-> <<>>, regbase |-> None, hooked |-> FALSE, active |-> FALSE,
     regids |-> <<>>]

(* np.stack([mask_image] * 3, axis=-1) for a 2-D image; the pixels of an   *)
(* image [ndim, px] as RGB triples.                                        *)
RgbPixels(mask_image) ==
    IF mask_image.ndim = 2
    THEN [k \in 1..Len(mask_image.px) |->
             <<mask_image.px[k], mask_image.px[k], mask_image.px[k]>>]
    ELSE mask_image.px

(* np.all(np.abs(mask_image - color) < 10, axis=-1) *)
ColourMatch(px, color) ==
    [k \in 1..Len(px) |->
        \A ch \in 1..CCHANNELS : Abs(px[k][ch] - color[ch]) < Tolerance]

AnyTrue(m) == \E k \in 1..Len(m) : m[k]

(* detected_regions: the first loop of setup_masks, for c, c+1, .. *)
RECURSIVE DetectRegions(_, _, _, _)
DetectRegions(px, colreg, c, layer_count) ==
    IF c >= layer_count THEN <<>>
    ELSE LET color_match == ColourMatch(px, colreg[c + 1])
         IN  (IF AnyTrue(color_match)
              THEN <<[c |-> c, color_match |-> color_match]>>
              ELSE <<>>)
             \o DetectRegions(px, colreg, c + 1, layer_count)

(* REGUSE[c] = color.tolist() for every detected region *)
RecordUsed(reguse, detected, colreg) ==
    LET ids == {detected[j].c : j \in 1..Len(detected)}
    IN  [c \in DOMAIN reguse \cup ids |->
            IF c \in ids THEN colreg[c + 1] ELSE reguse[c]]

(* color_match.astype(np.float16) *)
AsFloat(color_match) ==
    [k \in 1..Len(color_match) |-> IF color_match[k] THEN 1 ELSE 0]

(* tm after the second loop: the pixelwise sum of the detected masks *)
RECURSIVE SumMasks(_, _)
SumMasks(masks, n) ==
    IF Len(masks) = 0 THEN [k \in 1..n |-> 0]
    ELSE LET rest == SumMasks(Tail(masks), n)
         IN  [k \in 1..n |-> Head(masks)[k] + rest[k]]

Clip01(x) == IF x < 0 THEN 0 ELSE IF x > 1 THEN 1 ELSE x

(* 1 - np.clip(tm, 0, 1) *)
BaseMask(tm) == [k \in 1..Len(tm) |-> 1 - Clip01(tm[k])]

(* setup_masks(self, mask_image, layer_count), mask_image None or Some.    *)
(* Returns the processor and the two globals it writes.                    *)
setup_masks(self, colreg, reguse, mask_image, layer_count) ==
    IF mask_image.isNone
    THEN [self |-> self, COLREG |-> colreg, REGUSE |-> reguse]
    ELSE LET px == RgbPixels(mask_image.val)
             Rest(colreg2) ==
                LET detected == DetectRegions(px, colreg2.val, 0, layer_count)
                    masks    == [j \in 1..Len(detected) |->
                                    AsFloat(detected[j].color_match)]
                    tm       == SumMasks(masks, Len(px))
                IN  [self   |-> [self EXCEPT
                                   !.regmasks = masks,
                                   !.regids   = [j \in 1..Len(detected) |-> detected[j].c],
                                   !.regbase  = IF Len(masks) = 0 THEN self.regbase
                                                ELSE Some(BaseMask(tm)),
                                   !.active   = TRUE],
                     COLREG |-> colreg2,
                     REGUSE |-> RecordUsed(reguse, detected, colreg2.val)]
         IN  Bind(deterministic_colours(Max(layer_count + 1, MAXCOLREG), colreg), Rest)

---------------------------------------------------------------------------
(* Hook manager: hook_forwards / unhook_forwards                           *)

(* root_module.named_modules(): the submodules of the host network.  A     *)
(* name is the sequence of its dot-separated components.                   *)
NamedModules ==
    << [name  |-> <<"input_blocks", "1", "1", "transformer_blocks", "0", "attn1">>,
        class |-> "CrossAttention"],
       [name  |-> <<"input_blocks", "1", "1", "transformer_blocks", "0", "attn2">>,
        class |-> "CrossAttention"],
       [name  |-> <<"input_blocks", "1", "1", "transformer_blocks", "0", "attn2", "to_q">>,
        class |-> "Linear"],
       [name  |-> <<"middle_block", "1", "transformer_blocks", "0", "attn2">>,
        class |-> "CrossAttention"] >>

Modules == 1..Len(NamedModules)

(* Values of module.forward and module._original_forward: the module's own *)
(* forward, the intercept created by processor proc for this module, or    *)
(* (for _original_forward only) no such attribute.                         *)
Orig == [kind |-> "orig", proc |-> 0]

Hook(pid) == [kind |-> "hook", proc |-> pid]

NoAttr == [kind |-> "noattr", proc |-> 0]

NameOnlyTarget(m) ==
    \E i \in 1..Len(NamedModules[m].name) : NamedModules[m].name[i] = "attn2"

(* "attn2" in name and module.__class__.__name__ == "CrossAttention" *)
IsTarget(m) ==
    /\ \E i \in 1..Len(NamedModules[m].name) : NamedModules[m].name[i] = "attn2"
    /\ NamedModules[m].class = "CrossAttention"

(* _hook_forwards_standard(root_module, remove) run by processor pid on    *)
(* the network net = [forward, original_forward].                          *)
HookForwardsStandard(pid, net, remove) ==
    [forward |->
        [m \in Modules |->
            IF ~IsTarget(m) THEN net.forward[m]
            ELSE IF remove
                 THEN IF net.original_forward[m].kind # "noattr"
                      THEN net.original_forward[m]
                      ELSE net.forward[m]
                 ELSE Hook(pid)],
     original_forward |->
        [m \in Modules |->
            IF ~IsTarget(m) THEN net.original_forward[m]
            ELSE IF remove THEN NoAttr
                 ELSE net.forward[m]]]

(* _hook_forwards_forge(root_module, remove): the same traversal *)
HookForwardsForge(pid, net, remove) ==
    [forward |->
        [m \in Modules |->
            IF ~IsTarget(m) THEN net.forward[m]
            ELSE IF remove
                 THEN IF net.original_forward[m].kind # "noattr"
                      THEN net.original_forward[m]
                      ELSE net.forward[m]
                 ELSE Hook(pid)],
     original_forward |->
        [m \in Modules |->
            IF ~IsTarget(m) THEN net.original_forward[m]
            ELSE IF remove THEN NoAttr
                 ELSE net.forward[m]]]

(* hook_forwards(self, p): returns the processor and the network *)
hook_forwards(pid, self, net) ==
    [self |-> [self EXCEPT !.hooked = TRUE],
     net  |-> IF self.is_forge THEN HookForwardsForge(pid, net, FALSE)
              ELSE HookForwardsStandard(pid, net, FALSE)]

(* unhook_forwards(self, p) *)
unhook_forwards(pid, self, net) ==
    IF self.hooked
    THEN [self |-> [self EXCEPT !.hooked = FALSE],
          net  |-> IF self.is_forge THEN HookForwardsForge(pid, net, TRUE)
                   ELSE HookForwardsStandard(pid, net, TRUE)]
    ELSE [self |-> self, net |-> net]

---------------------------------------------------------------------------
(* Attention compositor: the intercept returned by _create_forward_hook    *)

(* _repeat_div(x, y) *)
RECURSIVE RepeatDiv(_, _)
RepeatDiv(x, y) == IF y > 0 THEN RepeatDiv((x + 1) \div 2, y - 1) ELSE x

(* math.ceil(math.log2(math.sqrt(height * width / xs))) when it is         *)
(* positive, else 0 (_repeat_div does nothing for y <= 0): the least       *)
(* s >= 0 with 4^s * xs >= height * width.                                 *)
RECURSIVE ScaleFrom(_, _, _)
ScaleFrom(hw, xs, s) ==
    IF Pow2(2 * s) * xs >= hw THEN s ELSE ScaleFrom(hw, xs, s + 1)

UnrootedScale(height, width, xs) == 2 * ScaleFrom(height * width, xs, 0)

Scale(height, width, xs) == ScaleFrom(height * width, xs, 0)

(* A call forward(x, context, mask, **kwargs) is the record                *)
(* args = [xs, context]: xs = x.size()[1], context = None or               *)
(* Some(context.shape[1]); mask and kwargs are handed on untouched.        *)
(* What a call returns:                                                    *)
(*   original  - the module's own forward applied to args                  *)
(*   composite - the mask-weighted sum computed by processor proc: passes  *)
(*               lists, in order, the conditioning chunk of each attention *)
(*               pass and the mask that weights it (None: no base mask,    *)
(*               the accumulator starts at zero)                           *)
(*   error     - the exception raised                                      *)
OriginalResult(m, args) ==
    [kind |-> "original", mod |-> m, args |-> args, proc |-> 0,
     dsh |-> 0, dsw |-> 0, passes |-> <<>>, error |-> ""]

ErrorResult(m, args, e) ==
    [kind |-> "error", mod |-> m, args |-> args, proc |-> 0,
     dsh |-> 0, dsw |-> 0, passes |-> <<>>, error |-> e]

(* context_to_use.shape[1] // TOKENSCON *)
NumChunks(args) ==
    (IF args.context.isNone THEN args.xs ELSE args.context.val) \div TOKENSCON

(* chunk_idx = i + 1 for the mask at Python index i *)
ChunkIdx(i) == i + 1

(* the conditioning chunk of the pass for regmasks[i] *)
RegionChunk(i, num_chunks) ==
    IF ChunkIdx(i) < num_chunks THEN ChunkIdx(i) ELSE 0

(* the two early returns of the intercept *)
PassThrough(self, args) ==
    ~self.active \/ Len(self.regmasks) = 0 \/ NumChunks(args) <= 1

(* The body of the intercept after the early returns. *)
Composite(pid, self, m, args) ==
    LET scale == Scale(self.height, self.width, args.xs)
        dsh   == RepeatDiv(self.height, scale)
        dsw   == RepeatDiv(self.width, scale)
        nc    == NumChunks(args)
    IN  IF dsh * dsw # args.xs
        THEN ErrorResult(m, args, "RuntimeError")       \* base_out.reshape fails
        ELSE [kind |-> "composite", mod |-> m, args |-> args, proc |-> pid,
              dsh |-> dsh, dsw |-> dsw,
              passes |-> <<[chunk |-> 0, weight |-> self.regbase]>> \o
                         [i \in 1..Len(self.regmasks) |->
                            [chunk  |-> RegionChunk(i - 1, nc),
                             weight |-> Some(self.regmasks[i])]],
              error |-> ""]

(* module._original_forward(x, context, mask, **kwargs), the attribute     *)
(* being looked up on the module when the call is made.  When the saved    *)
(* forward is itself an intercept that passes through, that intercept      *)
(* calls module._original_forward again, which is itself, without end.     *)
CallOriginalForward(ps, net, m, args) ==
    LET saved == net.original_forward[m]
    IN  CASE saved.kind = "noattr" -> ErrorResult(m, args, "AttributeError")
          [] saved.kind = "orig"   -> OriginalResult(m, args)
          [] saved.kind = "hook"   ->
                IF PassThrough(ps[saved.proc], args)
                THEN ErrorResult(m, args, "RecursionError")
                ELSE Composite(saved.proc, ps[saved.proc], m, args)

(* forward(x, context, mask, **kwargs) of the intercept of processor pid *)
Intercept(ps, net, pid, m, args) ==
    IF PassThrough(ps[pid], args)
    THEN CallOriginalForward(ps, net, m, args)
    ELSE Composite(pid, ps[pid], m, args)

(* module.forward(x, context, mask, **kwargs) as the host network calls it *)
CallModule(ps, net, m, args) ==
    IF net.forward[m].kind = "hook"
    THEN Intercept(ps, net, net.forward[m].proc, m, args)
    ELSE OriginalResult(m, args)

---------------------------------------------------------------------------
(* Script.process / Script.postprocess                                     *)

(* The request object p as the host hands it to process. *)
FreshP(height, width) ==
    [height |-> height, width |-> width,
     prompt |-> "masterpiece",
     all_prompts |-> <<"masterpiece", "masterpiece">>,
     negative_prompt |-> "lowres",
     all_negative_prompts |-> <<"lowres", "lowres">>,
     extra_generation_params |->
        [k \in {"MRP Active", "MRP Regions", "MRP Prompt"} |-> None]]

(* str(i) for i >= 0: the decimal digits of i *)
RECURSIVE Str(_)
Str(i) ==
    LET digit == <<"0", "1", "2", "3", "4", "5", "6", "7", "8", "9">>
    IN  IF i < 10 THEN digit[i + 1]
        ELSE Str(i \div 10) \o digit[(i % 10) + 1]

(* json.loads(prompts_dump) under the try of process: the parsed mapping,  *)
(* or the empty mapping when prompts_dump is empty or is not JSON.         *)
(* A dump is [kind, map], kind one of "empty", "invalid", "dict".          *)
LayerPromptsMap(prompts_dump) ==
    IF prompts_dump.kind = "dict" THEN prompts_dump.map ELSE <<>>

(* len(layer_prompts_map) if layer_prompts_map else int(layer_count) if    *)
(* layer_count else 0                                                      *)
ActualLayerCount(layer_prompts_map, layer_count) ==
    IF DOMAIN layer_prompts_map # {}
    THEN Cardinality(DOMAIN layer_prompts_map)
    ELSE IF layer_count # 0 THEN layer_count ELSE 0

(* layer_prompts_map.get(str(i), ""), "_" when that is empty *)
LayerText(layer_prompts_map, i) ==
    LET layer_text == IF Str(i) \in DOMAIN layer_prompts_map
                      THEN layer_prompts_map[Str(i)] ELSE ""
    IN  IF layer_text # "" THEN layer_text ELSE "_"

(* prompts: the base prompt and one entry per layer 1..actual_layer_count *)
Prompts(base_prompt, layer_prompts_map, actual_layer_count) ==
    <<base_prompt>> \o
    [i \in 1..actual_layer_count |-> LayerText(layer_prompts_map, i)]

(* " BREAK ".join(prompts) *)
RECURSIVE JoinBreak(_)
JoinBreak(prompts) ==
    IF Len(prompts) = 1 THEN prompts[1]
    ELSE prompts[1] \o " BREAK " \o JoinBreak(Tail(prompts))

(* [x] * len(old) if old else [x] *)
Replicate(x, old) ==
    IF Len(old) > 0 THEN [j \in 1..Len(old) |-> x] ELSE <<x>>

(* combined_prompt[:200] + "..." if len(combined_prompt) > 200 *)
MetaPrompt(combined_prompt) ==
    IF Len(combined_prompt) > 200
    THEN SubSeq(combined_prompt, 1, 200) \o "..."
    ELSE combined_prompt

(* Whether process gets past its three early returns.  mask_data is        *)
(* [kind, image]: "empty" (None or ""), "not_data_url" (does not start     *)
(* with "data:image"), "undecodable" (split, b64decode or Image.open       *)
(* raises) or "image" (decodes to the RGB image).                          *)
Proceeds(active, mask_data) ==
    /\ active
    /\ mask_data.kind \notin {"empty", "not_data_url"}
    /\ mask_data.kind # "undecodable"

(* np.array(Image.open(...).convert("RGB")) *)
DecodedImage(mask_data) == [px |-> mask_data.image, ndim |-> 3]

(* process(p, active, mask_data, base_prompt, base_neg_prompt,             *)
(*         prompts_dump, layer_count) on a fresh request p0                *)
Process(p0, active, mask_data, base_prompt, base_neg_prompt, prompts_dump, layer_count) ==
    LET in == [active |-> active, mask_data |-> mask_data,
               base_prompt |-> base_prompt, base_neg_prompt |-> base_neg_prompt,
               prompts_dump |-> prompts_dump, layer_count |-> layer_count]
    IN
    IF ~Proceeds(active, mask_data)
    THEN /\ p' = p0
         /\ last' = [op |-> "process", in |-> in, proceeded |-> FALSE]
         /\ UNCHANGED <<COLREG, REGUSE, forward, original_forward, procs, script,
                        forge, before_install>>
         /\ UNCHANGED codec
    ELSE /\ Len(procs) < MaxProcs
         /\ LET pid   == Len(procs) + 1
                new   == NewProcessor(p0.height, p0.width, forge)
                lmap  == LayerPromptsMap(prompts_dump)
                alc   == ActualLayerCount(lmap, layer_count)
                prompts  == IF base_prompt # ""
                            THEN Prompts(base_prompt, lmap, alc)
                            ELSE Prompts("", lmap, alc)
                combined == IF Len(prompts) > 1 THEN JoinBreak(prompts) ELSE prompts[1]
            IN  \E sm \in {setup_masks(new, COLREG, REGUSE,
                                        Some(DecodedImage(mask_data)), alc)} :
                \E hk \in {hook_forwards(pid, sm.self,
                              [forward |-> forward, original_forward |-> original_forward])} :
                /\ procs' = Append(procs, hk.self)
                /\ COLREG' = sm.COLREG
                /\ REGUSE' = sm.REGUSE
                /\ forward' = hk.net.forward
                /\ original_forward' = hk.net.original_forward
                /\ p' = [p0 EXCEPT
                          !.prompt = combined,
                          !.all_prompts = Replicate(combined, p0.all_prompts),
                          !.negative_prompt =
                              IF base_neg_prompt # "" THEN base_neg_prompt ELSE @,
                          !.all_negative_prompts =
                              IF base_neg_prompt # ""
                              THEN Replicate(base_neg_prompt, p0.all_negative_prompts)
                              ELSE @,
                          !.extra_generation_params =
                              [@ EXCEPT !["MRP Active"]  = Some(TRUE),
                                        !["MRP Regions"] = Some(alc + 1),
                                        !["MRP Prompt"]  = Some(MetaPrompt(combined))]]
                /\ script' = [active |-> TRUE, processor |-> pid]
                /\ before_install' = forward
                /\ last' = [op |-> "process", in |-> in, proceeded |-> TRUE]
                /\ UNCHANGED forge
                /\ UNCHANGED codec

(* postprocess(p, processed) *)
Postprocess ==
    /\ IF script.active /\ script.processor # 0
       THEN LET pid == script.processor
                uh  == unhook_forwards(pid, procs[pid],
                          [forward |-> forward, original_forward |-> original_forward])
            IN  /\ procs' = [procs EXCEPT ![pid] = uh.self]
                /\ forward' = uh.net.forward
                /\ original_forward' = uh.net.original_forward
                /\ script' = [active |-> FALSE, processor |-> 0]
       ELSE UNCHANGED <<forward, original_forward, procs, script>>
    /\ last' = [op |-> "postprocess",
                unhooked |-> script.active /\ script.processor # 0]
    /\ UNCHANGED <<COLREG, REGUSE, p, forge, before_install>>
    /\ UNCHANGED codec

(* One call of module m's forward by the host network during sampling. *)
CallForward(m, args) ==
    /\ last' = [op |-> "forward",
                result |-> CallModule(procs,
                              [forward |-> forward, original_forward |-> original_forward],
                              m, args)]
    /\ UNCHANGED <<COLREG, REGUSE, forward, original_forward, procs, script, p,
                   forge, before_install>>
    /\ UNCHANGED codec

---------------------------------------------------------------------------
(* Inputs                                                                  *)

(* ColourSequence[c]: the colour of index c *)
Colour(c) == deterministic_colours(c + 1, None).val[c + 1]

(* a pixel between Colour(4) and Colour(9), within the tolerance of both *)
Drifted == <<124, 120, 64>>

NotImage(kind) == [image |-> <<>>, kind |-> kind]

ImageData(px) == [image |-> px, kind |-> "image"]

EmptyDump == [kind |-> "empty", map |-> <<>>]

InvalidDump == [kind |-> "invalid", map |-> <<>>]

DictDump(map) == [kind |-> "dict", map |-> map]

(* base_prompt, base_neg_prompt, prompts_dump, layer_count *)
FoxPrompt == <<"a forest", "", DictDump("1" :> "a red fox"), 1>>

(* one request per reason for an early return of process *)
EarlyReturnRequests ==
    { [active |-> FALSE, mask_data |-> ImageData(<<Colour(0), White>>), prompt |-> FoxPrompt] }
    \cup
    { [active |-> TRUE, mask_data |-> NotImage(k), prompt |-> FoxPrompt]
        : k \in {"empty", "not_data_url", "undecodable"} }

(* The requests of the lifecycle specification: the early returns, and a   *)
(* mask with no region, with one region and with two regions.              *)
Requests ==
    EarlyReturnRequests
    \cup
    { [active |-> TRUE, mask_data |-> ImageData(px), prompt |-> q]
        : px \in { <<White, White>>, <<Colour(0), White>>, <<Colour(0), Colour(1)>> },
          q  \in { FoxPrompt,
                   <<"", "blurry",
                     DictDump(("1" :> "a red fox") @@ ("2" :> "a cat")), 0>> } }

(* The requests of the single-request specification: every painted image   *)
(* with every prompt input.                                                *)
MaskImages ==
    { <<White, White>>,
      <<Colour(1), White>>,
      <<Colour(0), White>>,
      <<Colour(0), Colour(1)>>,
      <<Colour(0), Colour(2)>>,
      <<Colour(1), Colour(1)>> }

PromptInputs ==
    { FoxPrompt,
      <<"a forest", "blurry",
        DictDump(("1" :> "a red fox") @@ ("2" :> "") @@ ("3" :> "a dog")), 1>>,
      <<"a forest", "", DictDump("2" :> "a cat"), 1>>,
      <<"", "", EmptyDump, 2>>,
      <<"a forest", "", InvalidDump, 0>> }

WideRequests ==
    EarlyReturnRequests
    \cup
    { [active |-> TRUE, mask_data |-> ImageData(px), prompt |-> q]
        : px \in MaskImages, q \in PromptInputs }

(* p.height, p.width of a request *)
Dims == {<<512, 512>>}

(* x.size()[1] and context of a forward call: the 64 x 64 feature map of a *)
(* 512 x 512 request, with one, two or four conditioning chunks or without *)
(* a context                                                               *)
ForwardArgs ==
    { [xs |-> 4096, context |-> c]
        : c \in {None, Some(TOKENSCON), Some(2 * TOKENSCON), Some(4 * TOKENSCON)} }

---------------------------------------------------------------------------
(* The request lifecycle: process, the forward calls of sampling,          *)
(* postprocess.  A request that terminates early gets no postprocess.      *)

Init ==
    /\ COLREG = None
    /\ REGUSE = <<>>
    /\ VARIANT = 0
    /\ canvas = None
    /\ forward = [m \in Modules |-> Orig]
    /\ original_forward = [m \in Modules |-> NoAttr]
    /\ procs = <<>>
    /\ script = [active |-> FALSE, processor |-> 0]
    /\ p = FreshP(512, 512)
    /\ forge \in BOOLEAN
    /\ before_install = [m \in Modules |-> Orig]
    /\ last = [op |-> "init"]

DoProcess ==
    \E r \in Requests, d \in Dims :
        Process(FreshP(d[1], d[2]), r.active, r.mask_data,
                r.prompt[1], r.prompt[2], r.prompt[3], r.prompt[4])

DoPostprocess == Postprocess

DoCallForward ==
    \E m \in Modules, args \in ForwardArgs : CallForward(m, args)

Next == DoProcess \/ DoPostprocess \/ DoCallForward

Spec == Init /\ [][Next]_vars

---------------------------------------------------------------------------
(* The same lifecycle over every painted image and every prompt input.     *)

DoWideProcess ==
    \E r \in WideRequests, d \in Dims :
        Process(FreshP(d[1], d[2]), r.active, r.mask_data,
                r.prompt[1], r.prompt[2], r.prompt[3], r.prompt[4])

NextRequest == DoWideProcess \/ DoPostprocess \/ DoCallForward

SpecRequest == Init /\ [][NextRequest]_vars

---------------------------------------------------------------------------
(* Mask ingestion over many declared regions: requests whose layer_count   *)
(* reaches far into the colour sequence, on three-pixel images.            *)

IngestImages ==
    { <<Colour(1), Colour(3), White>>,
      <<Colour(1), White, White>>,
      <<Colour(0), Colour(2), White>>,
      <<Drifted, White, White>>,
      <<Colour(9), Colour(1), White>>,
      <<White, White, White>> }

IngestCounts == {0, 2, 4, 10, 19, 48}

DoIngestProcess ==
    \E px \in IngestImages, n \in IngestCounts, d \in Dims :
        Process(FreshP(d[1], d[2]), TRUE, ImageData(px), "a forest", "", EmptyDump, n)

NextIngest == DoIngestProcess \/ DoPostprocess

SpecIngest == Init /\ [][NextIngest]_vars

---------------------------------------------------------------------------
(* The colour allocator on its own: deterministic_colours(m) and then      *)
(* deterministic_colours(n, that).                                         *)

Allocate(m, n) ==
    /\ last' = [op |-> "deterministic_colours", m |-> m, n |-> n,
                first  |-> deterministic_colours(m, None),
                result |-> deterministic_colours(n, deterministic_colours(m, None))]
    /\ UNCHANGED <<COLREG, REGUSE, forward, original_forward, procs, script, p,
                   forge, before_install>>
    /\ UNCHANGED codec

DoAllocate == \E m \in 1..MaxColours, n \in 0..MaxColours : Allocate(m, n)

NextColours == DoAllocate

SpecColours == Init /\ [][NextColours]_vars

---------------------------------------------------------------------------
(* The cached colour sequence COLREG as the callers grow it: each call     *)
(* COLREG = deterministic_colours(n, COLREG) with n beyond the cached      *)
(* length, up to the MAXCOLREG colours mask ingestion asks for.  The call  *)
(* record keeps the hues and the colours of the sequence of the same       *)
(* length computed from scratch.                                           *)

CachedLen == IF COLREG.isNone THEN 0 ELSE Len(COLREG.val)

Extend(n) ==
    /\ CachedLen < n
    /\ COLREG' = deterministic_colours(n, COLREG)
    /\ last' = [n |-> n,
                lhsv  |-> Hues(n),
                m |-> CachedLen, op |-> "extend",
                fresh |-> deterministic_colours(n, None)]
    /\ UNCHANGED <<REGUSE, forward, original_forward, procs, script, p,
                   forge, before_install>>
    /\ UNCHANGED codec

(* The lengths asked for from a cache of length m: one more colour (the    *)
(* next region id of a stroke commit) and the MAXCOLREG of mask ingestion. *)
ExtendTargets == {CachedLen + 1, MAXCOLREG}

DoExtend == \E n \in ExtendTargets : n <= MAXCOLREG /\ Extend(n)

NextSequence == DoExtend

SpecSequence == Init /\ [][NextSequence]_vars

---------------------------------------------------------------------------
(* The resolution derivation of the intercept on its own: the host network *)
(* at depth d hands the intercept xs = h_d * w_d tokens, h_d and w_d being *)
(* the request height and width halved d times by its stride-2             *)
(* convolutions (ceiling division); the intercept derives (dsh, dsw) from  *)
(* height, width and xs.                                                   *)

(* the host's feature-map side at depth d *)
RECURSIVE HostHalve(_, _)
HostHalve(x, d) == IF d = 0 THEN x ELSE HostHalve((x + 1) \div 2, d - 1)

DeriveResolution(height, width, d) ==
    LET h_d   == HostHalve(height, d)
        w_d   == HostHalve(width, d)
        xs    == h_d * w_d
        scale == Scale(height, width, xs)
    IN  /\ last' = [height |-> height, width |-> width, xs |-> xs,
                    dsh |-> RepeatDiv(height, scale),
                    dsw |-> RepeatDiv(width, scale),
                    scale |-> scale, op |-> "resolution",
                    d |-> d, h_d |-> h_d, w_d |-> w_d]
        /\ UNCHANGED <<COLREG, REGUSE, forward, original_forward, procs, script, p,
                       forge, before_install>>
        /\ UNCHANGED codec

(* request sizes: every small size, and sizes the host user interface offers *)
ResolutionDims == (1..6) \cup {64, 512, 768}

ResolutionDepths == 0..6

DoDeriveResolution ==
    \E height \in ResolutionDims, width \in ResolutionDims, d \in ResolutionDepths :
        DeriveResolution(height, width, d)

NextResolution == DoDeriveResolution

SpecResolution == Init /\ [][NextResolution]_vars

---------------------------------------------------------------------------
(* The authoring session of the region codec: the caller holds one canvas  *)
(* (the image of the mask editor), obtained from create_canvas, from       *)
(* load_mask or from the previous draw_region, and hands it back to        *)
(* draw_region and detect_mask.                                            *)

rest == <<forward, original_forward, procs, script, p, forge, before_install>>

(* create_canvas(h, w, indwipe) called by the session *)
CreateCanvas(h, w, indwipe) ==
    \E cc \in {create_canvas(VARIANT, REGUSE, h, w, indwipe)} :
        /\ VARIANT' = cc.VARIANT
        /\ REGUSE' = cc.REGUSE
        /\ canvas' = Some(cc.out)
        /\ last' = [h |-> h, w |-> w, indwipe |-> indwipe, op |-> "create_canvas"]
        /\ UNCHANGED COLREG
        /\ UNCHANGED rest

(* load_mask(flpath): the image of the file, or None when there is none *)
LoadMask(img) ==
    /\ canvas' = img
    /\ last' = [op |-> "load_mask"]
    /\ UNCHANGED <<COLREG, REGUSE, VARIANT>>
    /\ UNCHANGED rest

(* draw_region(img, num) on the held canvas with a stroke layer whose      *)
(* surviving polygons cover fill                                           *)
DrawRegion(fill, num) ==
    /\ ~canvas.isNone
    /\ canvas.val.h > VARIANT /\ canvas.val.w > VARIANT
    /\ \E dr \in {draw_region(COLREG, VARIANT, REGUSE,
                               [fill |-> fill, image |-> canvas.val], num)} :
        /\ COLREG' = dr.COLREG
        /\ VARIANT' = dr.VARIANT
        /\ REGUSE' = dr.REGUSE
        /\ canvas' = Some(dr.img_out)
        /\ last' = [num |-> num, num2 |-> dr.num2, shape |-> dr.shape,
                    mask |-> dr.mask, op |-> "draw_region"]
    /\ UNCHANGED rest

(* detect_mask(img, num) on the held canvas *)
ExtractMask(num) ==
    /\ \E dm \in {detect_mask(REGUSE, canvas, num, CBLACK)} :
        /\ REGUSE' = dm.REGUSE
        /\ last' = [img |-> canvas, reguse |-> REGUSE, num |-> num,
                    mask |-> dm.mask, op |-> "detect_mask"]
    /\ UNCHANGED <<COLREG, VARIANT, canvas>>
    /\ UNCHANGED rest

(* region ids of the session: the erase sentinel and the first regions *)
CodecIds == {-1, 0, 1, 2}

CanvasHeight == 1
CanvasWidth  == 2

(* the positions the surviving polygons of a stroke cover *)
Fills == {{}, {<<1, 1>>}, {<<1, 2>>}}

(* labeled images on file: every pixel white or an allocator colour *)
SavedMasks ==
    {None,
     Some([h |-> 1, w |-> 2, px |-> <<<<Colour(1), White>>>>]),
     Some([h |-> 1, w |-> 2, px |-> <<<<Colour(0), Colour(2)>>>>])}

DoCreateCanvas == \E indwipe \in BOOLEAN : CreateCanvas(CanvasHeight, CanvasWidth, indwipe)

DoLoadMask == \E img \in SavedMasks : LoadMask(img)

DoDrawRegion == \E fill \in Fills, num \in CodecIds : DrawRegion(fill, num)

DoExtractMask == \E num \in CodecIds : ExtractMask(num)

NextCodec == DoCreateCanvas \/ DoLoadMask \/ DoDrawRegion \/ DoExtractMask

SpecCodec == Init /\ [][NextCodec]_vars

---------------------------------------------------------------------------
(* The region id counter: a session that feeds the id draw_region returned *)
(* into its next draw_region, on a canvas of one pixel.                    *)

(* the ids a session starts from: erase, ids below the cap, an id above it *)
StartIds == {-1, CBLACK - 2, CBLACK + 1}

(* the id of the next stroke: the one the last draw_region returned, or a  *)
(* start id                                                                *)
NextIds == IF last.op = "draw_region" THEN {last.num2, -1} ELSE StartIds

DoStartCounter == \E indwipe \in BOOLEAN : CreateCanvas(1, 1, indwipe)

DoCommit == \E fill \in {{}, {<<1, 1>>}}, num \in NextIds : DrawRegion(fill, num)

NextCounter == DoStartCounter \/ DoCommit

SpecCounter == Init /\ [][NextCounter]_vars

---------------------------------------------------------------------------
(* The padding flag: a session of create_canvas(CanvasHeight, CanvasWidth) *)
(* and draw_region calls only, each draw_region on the canvas the previous *)
(* call returned.                                                          *)

NextParity == DoCreateCanvas \/ DoDrawRegion

SpecParity == Init /\ [][NextParity]_vars

---------------------------------------------------------------------------
(* Properties                                                              *)

Sum(mask) ==
    LET RECURSIVE S(_)
        S(k) == IF k = 0 THEN 0 ELSE mask[k] + S(k - 1)
    IN  S(Len(mask))

Net == [forward |-> forward, original_forward |-> original_forward]

(* the submodules whose name contains "attn2" and whose class is           *)
(* CrossAttention, read off the network                                    *)
CrossAttn2 ==
    { m \in Modules :
        /\ NamedModules[m].class = "CrossAttention"
        /\ "attn2" \in {NamedModules[m].name[i] : i \in 1..Len(NamedModules[m].name)} }

(* C1: once postprocess has run after the last process, every submodule's  *)
(* forward is its original forward and no submodule still carries a saved  *)
(* _original_forward.                                                      *)
C1_NoPatchAfterPostprocess ==
    last.op = "postprocess" =>
        \A m \in Modules : forward[m] = Orig /\ original_forward[m] = NoAttr

(* C2: the saved _original_forward of a submodule is always its genuine    *)
(* unpatched forward, never an intercept installed earlier.                *)
C2_SavedForwardIsGenuine ==
    \A m \in Modules : original_forward[m].kind # "hook"

(* C3: hook_forwards followed by unhook_forwards is a round trip: every    *)
(* attn2 CrossAttention submodule has again the forward it had before the  *)
(* install and no saved original, and no other submodule is ever touched.  *)
C3_InstallUninstallRoundTrip ==
    /\ \A m \in Modules \ CrossAttn2 :
          forward[m] = Orig /\ original_forward[m] = NoAttr
    /\ (last.op = "postprocess" /\ last.unhooked) =>
          \A m \in CrossAttn2 :
              forward[m] = before_install[m] /\ original_forward[m] = NoAttr

(* C3 witness: an install on the unpatched network has been undone. *)
C3_Witness ==
    /\ last.op = "postprocess" /\ last.unhooked
    /\ CrossAttn2 # {}
    /\ \A m \in CrossAttn2 : before_install[m] = Orig /\ forward[m] = Orig

(* C4: when the intercept's processor is not active, or holds no region    *)
(* mask, or the conditioning holds at most one chunk, the call returns     *)
(* exactly what the submodule's original forward returns on the same       *)
(* arguments.                                                              *)
C4_PassThroughIsExact ==
    (/\ last.op = "forward"
     /\ forward[last.result.mod].kind = "hook"
     /\ LET self == procs[forward[last.result.mod].proc]
            args == last.result.args
            tokens == IF args.context.isNone THEN args.xs ELSE args.context.val
        IN  ~self.active \/ Len(self.regmasks) = 0 \/ tokens \div 77 <= 1)
    => last.result = OriginalResult(last.result.mod, last.result.args)

(* C5: a request whose mask image is absent or undecodable, or in whose    *)
(* mask no region is active, leaves the request's prompt, negative prompt  *)
(* and generation metadata as they were, and every forward computes what   *)
(* the original forward would.                                             *)
C5_MalformedInputLeavesRequestAlone ==
    (/\ last.op = "process"
     /\ last.in.active
     /\ \/ last.in.mask_data.kind # "image"
        \/ last.proceeded /\ Len(procs[script.processor].regmasks) = 0)
    => /\ p = FreshP(p.height, p.width)
       /\ \A m \in Modules, args \in ForwardArgs :
             CallModule(procs, Net, m, args) = OriginalResult(m, args)

(* C6: base prompt 'a forest', one region (id 1) with prompt 'a red fox',  *)
(* and a mask whose only non-background pixels are k pixels in             *)
(* ColourSequence[1]'s colour give the prompt 'a forest BREAK a red fox',  *)
(* exactly one region mask, of sum k, and a base mask of sum pixels - k.   *)
C6_EndToEnd ==
    (/\ last.op = "process" /\ last.proceeded
     /\ last.in.base_prompt = "a forest"
     /\ last.in.prompts_dump.kind = "dict"
     /\ DOMAIN last.in.prompts_dump.map = {"1"}
     /\ last.in.prompts_dump.map["1"] = "a red fox"
     /\ LET px == last.in.mask_data.image
        IN  /\ \A k \in 1..Len(px) : px[k] \in {White, Colour(1)}
            /\ \E k \in 1..Len(px) : px[k] = Colour(1))
    => LET px   == last.in.mask_data.image
           k    == Cardinality({j \in 1..Len(px) : px[j] = Colour(1)})
           self == procs[script.processor]
       IN  /\ p.prompt = "a forest BREAK a red fox"
           /\ Len(self.regmasks) = 1
           /\ Sum(self.regmasks[1]) = k
           /\ ~self.regbase.isNone
           /\ Sum(self.regbase.val) = Len(px) - k

(* C7: after setup_masks, whenever at least one region is active, every    *)
(* pixel has value 1 in exactly one of the base mask and the region masks. *)
C7_MasksPartitionPixels ==
    (last.op = "process" /\ last.proceeded) =>
        LET self == procs[script.processor]
            n    == Len(last.in.mask_data.image)
        IN  Len(self.regmasks) > 0 =>
               /\ ~self.regbase.isNone
               /\ \A k \in 1..n :
                     self.regbase.val[k] + SumMasks(self.regmasks, n)[k] = 1

(* C8: for an image in which exactly regions 1 and 3 are painted and the   *)
(* rest is background, setup_masks (told of at least the four ids 0..3)    *)
(* finds exactly the ids 1 and 3, in this order, with their two masks and  *)
(* registry entries, and a base mask that is the complement of the union.  *)
C8_SparseIngestion ==
    (/\ last.op = "process" /\ last.proceeded
     /\ last.in.prompts_dump.kind = "empty" /\ last.in.layer_count >= 4
     /\ LET px == last.in.mask_data.image
        IN  /\ \A k \in 1..Len(px) : px[k] \in {White, Colour(1), Colour(3)}
            /\ \E k \in 1..Len(px) : px[k] = Colour(1)
            /\ \E k \in 1..Len(px) : px[k] = Colour(3))
    => LET px   == last.in.mask_data.image
           self == procs[script.processor]
           is1  == [k \in 1..Len(px) |-> IF px[k] = Colour(1) THEN 1 ELSE 0]
           is3  == [k \in 1..Len(px) |-> IF px[k] = Colour(3) THEN 1 ELSE 0]
       IN  /\ self.regids = <<1, 3>>
           /\ self.regmasks = <<is1, is3>>
           /\ {1, 3} \subseteq DOMAIN REGUSE
           /\ ~self.regbase.isNone
           /\ self.regbase.val = [k \in 1..Len(px) |-> 1 - is1[k] - is3[k]]

(* C9: the attention pass weighted by the mask of the active region with   *)
(* id k uses conditioning chunk k when that chunk exists and the base      *)
(* chunk 0 when it does not.  Region ids are read either as the colour     *)
(* index c of setup_masks or as the 1-based c + 1; the claim is taken to   *)
(* hold if it holds under one of the two readings.                         *)
C9_ChunkOfRegion ==
    (last.op = "forward" /\ last.result.kind = "composite") =>
        LET self == procs[last.result.proc]
            nc   == (IF last.result.args.context.isNone THEN last.result.args.xs
                     ELSE last.result.args.context.val) \div 77
        IN  \E d \in {0, 1} :
              \A i \in 1..Len(self.regids) :
                 LET k == self.regids[i] + d
                 IN  /\ last.result.passes[i + 1].weight = Some(self.regmasks[i])
                     /\ last.result.passes[i + 1].chunk = IF k < nc THEN k ELSE 0

(* C10: for 1 <= m <= n the first m entries of                             *)
(* deterministic_colours(n, deterministic_colours(m)) are those of         *)
(* deterministic_colours(m), and a supplied sequence of length >= n comes  *)
(* back unchanged.                                                         *)
C10_AllocatorKeepsPrefix ==
    last.op = "deterministic_colours" =>
        /\ (1 <= last.m /\ last.m <= last.n) =>
              /\ ~last.result.isNone
              /\ Len(last.result.val) = last.n
              /\ SubSeq(last.result.val, 1, last.m) = last.first.val
        /\ (1 <= last.n /\ last.n <= Len(last.first.val)) =>
              last.result = last.first

(* C10 witness: a sequence of m colours was extended to n > m colours. *)
C10_Witness ==
    /\ last.op = "deterministic_colours"
    /\ 1 <= last.m /\ last.m < last.n
    /\ Len(last.result.val) = last.n

---------------------------------------------------------------------------
(* Properties of the colour sequence                                       *)

(* floor(hue * n) for a hue numerator cval over HueDen *)
Bucket(cval, n) == (cval * n) \div HueDen

(* no two entries i # j of lhsv have the same bucket of width 1/n *)
DistinctBuckets(lhsv, n) ==
    Cardinality({Bucket(lhsv[i], n) : i \in 1..Len(lhsv)}) = Len(lhsv)

(* C11 as stated: the hues of the n entries of deterministic_colours(n)    *)
(* fall into pairwise different buckets of width 1/n.                      *)
C11_DistinctBucketsOfWidthOneOverN ==
    last.op = "extend" => DistinctBuckets(last.lhsv, last.n)

(* C11 amended: deterministic_colours(n) has n hues in [0, 1), and they    *)
(* fall into pairwise different buckets of width 1/2^ceil(log2(n)), the    *)
(* grid of the subdivision cycle that n has reached; the buckets of width  *)
(* 1/n are pairwise different whenever n is a power of two.                *)
C11_DistinctBucketsOfCycleWidth ==
    last.op = "extend" =>
        /\ Len(last.lhsv) = last.n
        /\ \A i \in 1..last.n : 0 <= last.lhsv[i] /\ last.lhsv[i] < HueDen
        /\ DistinctBuckets(last.lhsv, Pow2(CeilLog2(last.n)))
        /\ (last.n = Pow2(CeilLog2(last.n)) => DistinctBuckets(last.lhsv, last.n))

(* three colours: hues 0 and 1/4 share the first bucket of width 1/3 *)
C11_Witness ==
    /\ last.op = "extend"
    /\ last.n = 3
    /\ Bucket(last.lhsv[1], 3) = Bucket(last.lhsv[3], 3)
    /\ Bucket(last.lhsv[1], 4) # Bucket(last.lhsv[3], 4)

(* C16: the sequence grown from a cached prefix of length m equals, entry  *)
(* for entry, the sequence of the same length computed from scratch.       *)
C16_ResumeEqualsRecompute ==
    last.op = "extend" =>
        /\ ~COLREG.isNone
        /\ Len(COLREG.val) = last.n
        /\ COLREG = last.fresh

(* a resume from a cached power-of-two length up to MAXCOLREG colours *)
C16_Witness ==
    /\ last.op = "extend"
    /\ last.m = 4
    /\ last.n = MAXCOLREG
    /\ Len(COLREG.val) = MAXCOLREG

(* C17: the RGB triples of deterministic_colours(n) are pairwise distinct  *)
(* for every n up to MAXCOLREG.                                            *)
C17_ColoursPairwiseDistinct ==
    last.op = "extend" =>
        Cardinality({last.fresh.val[i] : i \in 1..Len(last.fresh.val)})
            = Len(last.fresh.val)

---------------------------------------------------------------------------
(* Properties of the request prompt and metadata                           *)

(* the elements of a finite set of integers in increasing order *)
RECURSIVE Ascending(_)
Ascending(S) ==
    IF S = {} THEN <<>>
    ELSE LET m == CHOOSE x \in S : \A y \in S : x <= y
         IN  <<m>> \o Ascending(S \ {m})

(* the region ids a prompt mapping has an entry for *)
MappedIds(map) == {i \in 1..99 : Str(i) \in DOMAIN map}

(* the base prompt and the prompt of every mapped region in increasing     *)
(* region-id order, an empty prompt replaced by the placeholder            *)
ExpectedSegments(base_prompt, map) ==
    LET ids == Ascending(MappedIds(map))
    IN  <<base_prompt>> \o
        [j \in 1..Len(ids) |->
            IF map[Str(ids[j])] = "" THEN "_" ELSE map[Str(ids[j])]]

(* C12: for a request that supplies a prompt mapping, process sets the     *)
(* prompt to the base prompt followed by the prompt of every mapped        *)
(* region, in increasing region-id order, joined with " BREAK ", each      *)
(* empty region prompt replaced by "_".                                    *)
C12_CombinedPrompt ==
    (/\ last.op = "process"
     /\ last.proceeded
     /\ last.in.prompts_dump.kind = "dict") =>
        LET map == last.in.prompts_dump.map
            seg == ExpectedSegments(last.in.base_prompt, map)
        IN  /\ Len(seg) = Cardinality(DOMAIN map) + 1
            /\ p.prompt = JoinBreak(seg)

(* C15: the "MRP Regions" entry written by process is the number of        *)
(* regions for which setup_masks found at least one matching pixel.        *)
C15_MetadataCountsActiveRegions ==
    (last.op = "process" /\ last.proceeded) =>
        p.extra_generation_params["MRP Regions"]
            = Some(Len(procs[script.processor].regmasks))

---------------------------------------------------------------------------
(* Properties of the resolution derivation                                 *)

DerivedIsHostResolution ==
    /\ last.dsh = last.h_d
    /\ last.dsw = last.w_d
    /\ last.dsh * last.dsw = last.xs

(* C14 as stated: for every height, width and depth d the intercept        *)
(* derives exactly the host's (h_d, w_d), so dsh * dsw = xs.               *)
C14_DerivedResolutionAtEveryDepth ==
    last.op = "resolution" => DerivedIsHostResolution

(* C14 amended: the intercept derives exactly the host's (h_d, w_d), so    *)
(* dsh * dsw = xs, for every height, width and depth d with                *)
(* 2^d <= height and 2^d <= width; 512 x 512 with xs = 4096 gives 64 x 64. *)
C14_DerivedResolutionWhileHalvable ==
    last.op = "resolution" =>
        /\ (Pow2(last.d) <= last.height /\ Pow2(last.d) <= last.width)
                => DerivedIsHostResolution
        /\ (last.height = 512 /\ last.width = 512 /\ last.xs = 4096)
                => (last.dsh = 64 /\ last.dsw = 64)

C14_Witness ==
    /\ last.op = "resolution"
    /\ last.height = 512 /\ last.width = 512 /\ last.xs = 4096
    /\ last.scale = 3
    /\ last.dsh = 64 /\ last.dsw = 64

---------------------------------------------------------------------------
(* Masks of the region codec                                               *)

(* the mask that is fillValue exactly where the pixel's whole RGB triple   *)
(* is none of the registry's colours                                       *)
UnclaimedMask(im, reguse, mult) ==
    [h |-> im.h, w |-> im.w,
     px |-> [r \in 1..im.h |-> [c \in 1..im.w |->
                IF WholeColourUnused(im.px[r][c], reguse) THEN mult ELSE 0]]]

(* C18: detect_mask with num < 0 returns fillValue at exactly the pixels   *)
(* whose whole RGB triple is none of the colours of the registry and 0 at  *)
(* every other pixel (fillValue everywhere when the registry is empty).    *)
C18_UnclaimedIsNotARegistryColour ==
    (last.op = "detect_mask" /\ last.num < 0 /\ ~last.img.isNone)
        => last.mask = Some(UnclaimedMask(last.img.val, last.reguse, CBLACK))

(* the regions present on a canvas *)
RegionsOn(im) ==
    {num \in CodecIds : /\ num >= 0
                        /\ \E r \in 1..im.h, c \in 1..im.w : im.px[r][c] = Colour(num)}

(* detect_mask(canvas, num) in the current state *)
MaskOf(num) == detect_mask(REGUSE, canvas, num, CBLACK).mask.val

---------------------------------------------------------------------------
(* The registry of used colours across the session                         *)

(* C20: an entry leaves the registry only in a create_canvas with wipe     *)
(* enabled; a draw_region with num >= 0 sets exactly the entry of num to   *)
(* the colour of num and leaves every other entry as it was; a draw_region *)
(* with num < 0 leaves the registry unchanged.                             *)
C20_RegistryLifecycle ==
    [][ /\ (DOMAIN REGUSE \ DOMAIN REGUSE' # {})
               => (last'.op = "create_canvas" /\ last'.indwipe)
        /\ (last'.op = "draw_region" /\ last'.num >= 0)
               => REGUSE' = (last'.num :> Colour(last'.num)) @@ REGUSE
        /\ (last'.op = "draw_region" /\ last'.num < 0)
               => REGUSE' = REGUSE ]_vars

(* a stroke commit that added its entry to a registry that kept another *)
C20_Witness ==
    /\ last.op = "draw_region"
    /\ last.num >= 0
    /\ last.num \in DOMAIN REGUSE
    /\ REGUSE[last.num] = Colour(last.num)
    /\ \E k \in DOMAIN REGUSE : k # last.num /\ REGUSE[k] = Colour(k)

---------------------------------------------------------------------------
(* The region id counter                                                   *)

(* num + 1 capped at 255 *)
CappedSuccessor(num) == IF num + 1 <= CBLACK THEN num + 1 ELSE CBLACK

(* C19: draw_region returns num + 1 capped at 255 for every num >= 0 and   *)
(* num unchanged for every num < 0, so that the id fed from one commit to  *)
(* the next never exceeds 255.                                             *)
C19_NextIdCappedForEveryId ==
    last.op = "draw_region" =>
        /\ (last.num >= 0) => last.num2 = CappedSuccessor(last.num)
        /\ (last.num < 0) => last.num2 = last.num
        /\ last.num2 <= CBLACK

(* C19 (amended): for 0 <= num <= 255 draw_region returns num + 1 capped   *)
(* at 255, for num < 0 and for num > 255 it returns num unchanged; an id   *)
(* that is at most 255 is followed by an id that is at most 255.           *)
C19_NextIdCappedUpToCap ==
    last.op = "draw_region" =>
        /\ (last.num >= 0 /\ last.num <= CBLACK)
               => last.num2 = CappedSuccessor(last.num)
        /\ (last.num < 0 \/ last.num > CBLACK) => last.num2 = last.num
        /\ (last.num <= CBLACK) => last.num2 <= CBLACK

(* a commit of region 255, the id having been fed forward from 254 *)
C19_Witness ==
    /\ last.op = "draw_region"
    /\ last.num = CBLACK
    /\ last.num2 = CBLACK
    /\ (CBLACK - 1) \in DOMAIN REGUSE
    /\ CBLACK \in DOMAIN REGUSE

---------------------------------------------------------------------------
(* The padding of the canvas                                               *)

(* C21: whatever the padding flag, the mask draw_region returns for the    *)
(* committed canvas has exactly the unpadded dimensions of the canvas,     *)
(* CanvasHeight x CanvasWidth: the padding row and column never appear in  *)
(* a mask.                                                                 *)
C21_MaskHasUnpaddedDimensions ==
    (last.op = "draw_region" /\ ~last.mask.isNone) =>
        /\ last.shape = <<CanvasHeight, CanvasWidth>>
        /\ last.mask.val.h = CanvasHeight
        /\ last.mask.val.w = CanvasWidth

====
